---- MODULE Spec2Model ----
(***************************************************************************)
(* The visual workflow builder of src/src/components/ToolBuilder.jsx: the  *)
(* ToolBuilder component's state (canvas, connections, selection, pending  *)
(* connection endpoint), the NodeProperties editor's held configuration,   *)
(* and the handlers that change them.                                      *)
(*                                                                         *)
(* A nullable JavaScript value is a sequence of length 0 (null) or 1.      *)
(* A configuration value is a tagged record [kind, v]; v is the text of    *)
(* the value (for a Structured value, its JSON text).                      *)
(***************************************************************************)
EXTENDS Integers, Sequences, FiniteSets, TLC

\* Bounds of the model.
MaxClock == 1   \* Date.now() takes the readings 0..MaxClock
MaxNodes == 2   \* most nodes on the canvas at once
MaxConns == 1   \* most connections in the list at once
MaxLinks == 2   \* most connections at once where the claim is about several connections

VARIABLES
    now,              \* the reading Date.now() returns
    canvas,           \* useState([]) of line 5: the node list
    selectedNode,     \* useState(null) of line 6: the node object clicked last
    connections,      \* useState([]) of line 7: the connection list
    isConnecting,     \* useState(false) of line 8
    connectionStart,  \* useState(null) of line 9: the pending endpoint
    editorConfig,     \* NodeProperties' useState(node.config), line 500; <<>> while unmounted
    paletteDragging,  \* the types whose DraggableComponent has isDragging true, line 314
    dragging,         \* the CanvasNodes whose isDragging is true, with dragOffset, lines 344-345
    listeners,        \* the mousemove/mouseup listener pairs on document, in attach order
    download,         \* the document exportWorkflow downloaded last; <<>> before the first
    consoleLog,       \* the arguments of the last console.log of runWorkflow, line 211
    allocatedNodeIds, \* history: every id addComponentToCanvas has allocated
    allocatedConnIds, \* history: every id completeConnection has allocated
    observed          \* history: the outcomes that have occurred

state == <<now, canvas, selectedNode, connections, isConnecting, connectionStart,
           editorConfig>>
widgets == <<paletteDragging, dragging, listeners, download, consoleLog>>
history == <<allocatedNodeIds, allocatedConnIds, observed>>
vars == <<state, widgets, history>>

----------------------------------------------------------------------------
\* Values

Str(s) == [kind |-> "String", v |-> s]
Structured(s) == [kind |-> "Structured", v |-> s]
Num(n) == [kind |-> "Number", v |-> n]
Port(n, t) == [name |-> n, type |-> t]

\* The palette, lines 13-86 (the icon, a display glyph, is left out).
availableComponents == <<
    [type |-> "scraper", name |-> "Web Scraper", color |-> "cyan",
     inputs |-> <<Port("url", "string")>>,
     outputs |-> <<Port("data", "object")>>,
     config |-> [method |-> Str("auto"), extraction_prompt |-> Str("")]],
    [type |-> "api", name |-> "API Connector", color |-> "blue",
     inputs |-> <<Port("endpoint", "string"), Port("params", "object")>>,
     outputs |-> <<Port("response", "object")>>,
     config |-> [method |-> Str("GET"), headers |-> Structured("{}")]],
    [type |-> "processor", name |-> "Data Processor", color |-> "yellow",
     inputs |-> <<Port("input", "any")>>,
     outputs |-> <<Port("output", "any")>>,
     config |-> [operation |-> Str("transform"), rules |-> Structured("[]")]],
    [type |-> "storage", name |-> "Data Storage", color |-> "green",
     inputs |-> <<Port("data", "any")>>,
     outputs |-> <<>>,
     config |-> [list_name |-> Str(""), list_type |-> Str("general")]],
    [type |-> "filter", name |-> "Data Filter", color |-> "purple",
     inputs |-> <<Port("data", "array"), Port("criteria", "object")>>,
     outputs |-> <<Port("filtered", "array")>>,
     config |-> [filter_type |-> Str("contains"), field |-> Str(""), value |-> Str("")]],
    [type |-> "email", name |-> "Email Sender", color |-> "red",
     inputs |-> <<Port("to", "string"), Port("subject", "string"), Port("body", "string")>>,
     outputs |-> <<Port("sent", "boolean")>>,
     config |-> [account |-> Str("default")]]
>>

\* `node_${Date.now()}` and `conn_${Date.now()}`, lines 90 and 155.
NodeId(t) == <<"node", t>>
ConnId(t) == <<"conn", t>>

\* A merge that keeps only the new keys.
SpreadDroppingOldKeys(a, b) == b

\* { ...a, ...b }: b's keys win, a's other keys stay (lines 182 and 503).
Spread(a, b) == b @@ a

Range(s) == {s[i] : i \in 1..Len(s)}
RemoveAt(s, i) == [k \in 1..(Len(s) - 1) |-> IF k < i THEN s[k] ELSE s[k + 1]]
NodeIds(cv) == {cv[i].id : i \in 1..Len(cv)}

----------------------------------------------------------------------------
\* Inputs the model draws from.

Component(type) == CHOOSE c \in Range(availableComponents) : c.type = type
GraphComponents == {Component("scraper"), Component("storage")}
EditorComponents == {Component("scraper"), Component("api")}
Points == {[x |-> 1, y |-> 1], [x |-> -1, y |-> 0]}
DropPoint == [x |-> 1, y |-> 1]
\* Where on a node's body a press lands, measured from the node's top-left corner.
GrabOffsets == {[x |-> 0, y |-> 0], [x |-> 1, y |-> 0]}
\* Pointer positions of a mousemove, measured from the top-left corner of the
\* .tool-builder element.
PointerPoints == {[x |-> 2, y |-> 1], [x |-> 0, y |-> 0], [x |-> 293, y |-> 68]}
\* The top-left corner of the box in which the nodes are positioned (the `relative`
\* container of line 251, inside its border), measured from the top-left corner of the
\* .tool-builder element (line 216): to the right of its border, its padding, the
\* palette (w-64) and the gap, and below its border, its padding and the header row.
ContainerOrigin == [x |-> 291, y |-> 67]
DragComponents == {Component("scraper")}
AllNodeIds == {NodeId(t) : t \in 0..MaxClock}
AllConnIds == {ConnId(t) : t \in 0..MaxClock}
Partials == {[method |-> Str("manual")]}
EditTexts == {"manual"}
MalformedTexts == {"{"}
StructuredTexts == {"{ \"a\": 1 }", "5"} \cup MalformedTexts

\* The arguments CanvasNode passes for each port it renders, lines 433-436 and 452-455.
InputEndpoints(node) ==
    {[nodeId |-> node.id, portType |-> p.type, portName |-> p.name, isOutput |-> FALSE]
        : p \in Range(node.inputs)}
OutputEndpoints(node) ==
    {[nodeId |-> node.id, portType |-> p.type, portName |-> p.name, isOutput |-> TRUE]
        : p \in Range(node.outputs)}
Endpoints(cv) == UNION {InputEndpoints(n) \cup OutputEndpoints(n) : n \in Range(cv)}

----------------------------------------------------------------------------
\* Rendering

\* Lines 296-305 with line 500: NodeProperties is mounted exactly while selectedNode is
\* not null, and its useState initialiser runs only when it mounts.
RenderProperties(sel, held) ==
    IF sel = <<>> THEN <<>>
    ELSE IF held = <<>> THEN <<sel[1].config>>
    ELSE held

----------------------------------------------------------------------------
\* Initial state: useState initial values, lines 5-9.

Init ==
    /\ now = 0
    /\ canvas = <<>>
    /\ selectedNode = <<>>
    /\ connections = <<>>
    /\ isConnecting = FALSE
    /\ connectionStart = <<>>
    /\ editorConfig = <<>>
    /\ paletteDragging = {}
    /\ dragging = {}
    /\ listeners = <<>>
    /\ download = <<>>
    /\ consoleLog = <<>>
    /\ allocatedNodeIds = {}
    /\ allocatedConnIds = {}
    /\ observed = {}

\* The clock advances between events.
Tick ==
    /\ now < MaxClock
    /\ now' = now + 1
    /\ UNCHANGED <<canvas, selectedNode, connections, isConnecting, connectionStart,
                   editorConfig>>
    /\ UNCHANGED <<widgets, history>>

----------------------------------------------------------------------------
\* Handlers of ToolBuilder

\* Lines 96-98: the paths at which the new node holds the very object of the component it
\* was given. inputs and outputs are assigned, not copied; { ...component.config } makes a
\* new config object whose keys hold the component's values, so a value that is itself an
\* object or array is the component's.
TemplateAliases(component) ==
    {<<"inputs">>, <<"outputs">>}
        \cup {<<"config", k>> : k \in {key \in DOMAIN component.config :
                                            component.config[key].kind = "Structured"}}

\* Lines 89-100.
NewNode(component, x, y) ==
    [id |-> NodeId(now), type |-> component.type, name |-> component.name,
     color |-> component.color, position |-> [x |-> x, y |-> y],
     inputs |-> component.inputs, outputs |-> component.outputs,
     config |-> component.config,
     aliases |-> TemplateAliases(component)]

\* Lines 88-103.
AddComponentToCanvas(component, x, y) ==
    /\ canvas' = Append(canvas, NewNode(component, x, y))
    /\ UNCHANGED <<now, selectedNode, connections, isConnecting, connectionStart,
                   editorConfig>>

\* Lines 105-116, for a click whose target is the canvas element.
HandleCanvasClick ==
    /\ selectedNode' = <<>>
    /\ editorConfig' = RenderProperties(<<>>, editorConfig)
    /\ UNCHANGED <<now, canvas, connections, isConnecting, connectionStart>>

\* Lines 118-121.
HandleNodeClick(node) ==
    /\ selectedNode' = <<node>>
    /\ editorConfig' = RenderProperties(<<node>>, editorConfig)
    /\ UNCHANGED <<now, canvas, connections, isConnecting, connectionStart>>

\* A move that repositions every node.
MoveEveryNode(cv, nodeId, newPosition) ==
    [i \in 1..Len(cv) |-> [cv[i] EXCEPT !.position = newPosition]]

\* A move that takes the moved node to the end of the list.
MoveNodeToEnd(cv, nodeId, newPosition) ==
    SelectSeq(cv, LAMBDA node : node.id # nodeId)
        \o [i \in 1..Len(SelectSeq(cv, LAMBDA node : node.id = nodeId)) |->
               [SelectSeq(cv, LAMBDA node : node.id = nodeId)[i] EXCEPT !.position = newPosition]]

\* Lines 124-128.
MoveNode(cv, nodeId, newPosition) ==
    [i \in 1..Len(cv) |->
        IF cv[i].id = nodeId THEN [cv[i] EXCEPT !.position = newPosition] ELSE cv[i]]

\* Lines 123-129.
HandleNodeDrag(nodeId, newPosition) ==
    /\ canvas' = MoveNode(canvas, nodeId, newPosition)
    /\ UNCHANGED <<now, selectedNode, connections, isConnecting, connectionStart,
                   editorConfig>>

\* The selectedNode that deleteNode reads at line 136: useCallback's dependency list
\* (line 139) is empty, so the callback is the one of the first render, whose
\* selectedNode is the initial null.
DeleteNodeSelectedNode == <<>>

\* Lines 136-138.
SelectionAfterDelete(nodeId) ==
    IF DeleteNodeSelectedNode # <<>> /\ DeleteNodeSelectedNode[1].id = nodeId
    THEN <<>> ELSE selectedNode

\* Lines 131-139.
DeleteNode(nodeId) ==
    /\ canvas' = SelectSeq(canvas, LAMBDA node : node.id # nodeId)
    /\ connections' = SelectSeq(connections,
            LAMBDA conn : conn.from.nodeId # nodeId /\ conn.to.nodeId # nodeId)
    /\ selectedNode' = SelectionAfterDelete(nodeId)
    /\ editorConfig' = RenderProperties(selectedNode', editorConfig)
    /\ UNCHANGED <<now, isConnecting, connectionStart>>

\* Lines 141-144.
StartConnection(nodeId, portType, portName, isOutput) ==
    /\ isConnecting' = TRUE
    /\ connectionStart' = <<[nodeId |-> nodeId, portType |-> portType,
                             portName |-> portName, isOutput |-> isOutput]>>
    /\ UNCHANGED <<now, canvas, selectedNode, connections, editorConfig>>

\* A validation that refuses a connection running back along an existing one.
ValidConnectionWithoutBackEdge(start, nodeId, isOutput) ==
    /\ start.isOutput /\ ~isOutput /\ start.nodeId # nodeId
    /\ ~\E k \in 1..Len(connections) :
            /\ connections[k].from.nodeId = nodeId
            /\ connections[k].to.nodeId = start.nodeId

\* A validation that forgets the direction tests of lines 151-152.
ValidConnectionIgnoringDirection(start, nodeId, isOutput) == start.nodeId # nodeId

\* A validation that forgets the self-loop test of line 153.
ValidConnectionAllowingSelfLoop(start, nodeId, isOutput) ==
    start.isOutput /\ ~isOutput

\* Lines 150-153: fromOutput && toInput && connectionStart.nodeId !== nodeId.
ValidConnection(start, nodeId, isOutput) ==
    start.isOutput /\ ~isOutput /\ start.nodeId # nodeId

\* Lines 154-166.
NewConnection(start, nodeId, portType, portName) ==
    [id |-> ConnId(now),
     from |-> [nodeId |-> start.nodeId, portType |-> start.portType,
               portName |-> start.portName],
     to |-> [nodeId |-> nodeId, portType |-> portType, portName |-> portName]]

\* A completion that keeps only the new connection.
CompleteConnectionReplacingList(nodeId, portType, portName, isOutput) ==
    IF ~isConnecting \/ connectionStart = <<>>
    THEN UNCHANGED state
    ELSE /\ IF ValidConnection(connectionStart[1], nodeId, isOutput)
            THEN /\ connections' = <<NewConnection(connectionStart[1], nodeId, portType, portName)>>
            ELSE UNCHANGED connections
         /\ isConnecting' = FALSE
         /\ connectionStart' = <<>>
         /\ UNCHANGED <<now, canvas, selectedNode, editorConfig>>

\* Lines 146-173. The early return of line 147 changes nothing.
CompleteConnection(nodeId, portType, portName, isOutput) ==
    IF ~isConnecting \/ connectionStart = <<>>
    THEN UNCHANGED state
    ELSE /\ IF ValidConnection(connectionStart[1], nodeId, isOutput)
            THEN /\ connections' = Append(connections,
                        NewConnection(connectionStart[1], nodeId, portType, portName))
            ELSE UNCHANGED connections
         /\ isConnecting' = FALSE
         /\ connectionStart' = <<>>
         /\ UNCHANGED <<now, canvas, selectedNode, editorConfig>>

\* Lines 175-177.
DeleteConnection(connectionId) ==
    /\ connections' = SelectSeq(connections, LAMBDA conn : conn.id # connectionId)
    /\ UNCHANGED <<now, canvas, selectedNode, isConnecting, connectionStart,
                   editorConfig>>

\* A merge that adds a node when none has the id.
MergeConfigOrInsert(cv, nodeId, config) ==
    IF nodeId \in NodeIds(cv)
    THEN [i \in 1..Len(cv) |->
            IF cv[i].id = nodeId
            THEN [cv[i] EXCEPT !.config = Spread(cv[i].config, config)]
            ELSE cv[i]]
    ELSE Append(cv, [id |-> nodeId, type |-> "", name |-> "", color |-> "",
                     position |-> [x |-> 0, y |-> 0], inputs |-> <<>>, outputs |-> <<>>,
                     config |-> config, aliases |-> {}])

\* Lines 180-184; a key that the merge overwrites no longer holds the template's value.
MergeConfig(cv, nodeId, config) ==
    [i \in 1..Len(cv) |->
        IF cv[i].id = nodeId
        THEN [cv[i] EXCEPT !.config = Spread(cv[i].config, config),
                           !.aliases = @ \ {<<"config", k>> : k \in DOMAIN config}]
        ELSE cv[i]]

\* Lines 179-185.
UpdateNodeConfig(nodeId, config) ==
    /\ canvas' = MergeConfig(canvas, nodeId, config)
    /\ UNCHANGED <<now, selectedNode, connections, isConnecting, connectionStart,
                   editorConfig>>

----------------------------------------------------------------------------
\* NodeProperties, lines 499-552

\* Lines 502-506: node is the selectedNode prop, config the held state.
HandleConfigChange(key, value) ==
    /\ selectedNode # <<>>
    /\ editorConfig # <<>>
    /\ LET newConfig == Spread(editorConfig[1], (key :> value))
       IN /\ editorConfig' = <<newConfig>>
          /\ canvas' = MergeConfig(canvas, selectedNode[1].id, newConfig)
    /\ UNCHANGED <<now, selectedNode, connections, isConnecting, connectionStart>>

\* Lines 518-525: the text input rendered for a held value whose typeof is 'string'.
EditStringField(key, text) ==
    /\ editorConfig # <<>>
    /\ key \in DOMAIN editorConfig[1]
    /\ editorConfig[1][key].kind = "String"
    /\ HandleConfigChange(key, Str(text))

\* A parser that takes any text as a structured value.
JsonParseAcceptingAnyText(text) == <<Structured(text)>>

\* JSON.parse of line 540 on the texts typed into the textarea: the parsed value, held by
\* its compact text, or nothing when JSON.parse throws.
JsonParse(text) ==
    CASE text = "{ \"a\": 1 }" -> <<Structured("{\"a\":1}")>>
      [] text = "5" -> <<Num(5)>>
      [] OTHER -> <<>>

\* Lines 534-546: the textarea rendered for a held value whose typeof is 'object'; the
\* catch of lines 541-543 drops the edit.
EditStructuredField(key, text) ==
    /\ editorConfig # <<>>
    /\ key \in DOMAIN editorConfig[1]
    /\ editorConfig[1][key].kind = "Structured"
    /\ IF JsonParse(text) = <<>>
       THEN UNCHANGED state
       ELSE HandleConfigChange(key, JsonParse(text)[1])

----------------------------------------------------------------------------
\* Gestures, as the render wires them.

\* Line 277 with line 406: a click on the body of the i-th node.
ClickNode(i) == HandleNodeClick(canvas[i])

\* Line 279 with lines 415-419: the delete button of the i-th node.
ClickDeleteButton(i) == DeleteNode(canvas[i].id)

\* Line 280 with lines 433-436: onPortClick is startConnection.
ClickInputPort(i, j) ==
    StartConnection(canvas[i].id, canvas[i].inputs[j].type, canvas[i].inputs[j].name, FALSE)

\* Line 280 with lines 452-455: onPortClick is startConnection.
ClickOutputPort(i, j) ==
    StartConnection(canvas[i].id, canvas[i].outputs[j].type, canvas[i].outputs[j].name, TRUE)

\* DraggableComponent, lines 313-340. paletteDragging holds, for each palette entry whose
\* isDragging is true, the data its dragstart put into the drag's dataTransfer.

\* Lines 316-319.
HandleDragStart(component) ==
    paletteDragging' = paletteDragging \cup {[type |-> component.type, data |-> component]}

\* Lines 321-323.
HandleDragEnd(component) ==
    paletteDragging' = {d \in paletteDragging : d.type # component.type}

\* Lines 325-329: the pointer picks a palette entry up (one drag at a time).
PaletteDragStart(component) ==
    /\ paletteDragging = {}
    /\ HandleDragStart(component)
    /\ UNCHANGED state

\* Lines 252-257: the dragged entry is released over the canvas. The canvas element has
\* an onClick only, no onDragOver and no onDrop, and nothing calls onAddToCanvas, so the
\* release runs the entry's dragend and no other handler.
PaletteDropOnCanvas(component) ==
    /\ \E d \in paletteDragging : d.type = component.type
    /\ HandleDragEnd(component)
    /\ UNCHANGED state

\* CanvasNode, lines 343-384. dragging holds, for each mounted CanvasNode whose isDragging
\* is true, its node id (the React key) and its dragOffset; listeners is the list of
\* functions attached to document, in the order they were added.

Max0(v) == IF v < 0 THEN 0 ELSE v

\* The two functions that the effect of a dragging CanvasNode attaches, lines 377-378:
\* its handleMouseMove (deps of line 370) and its handleMouseUp.
ClosuresOf(d) ==
    <<[event |-> "mousemove", nodeId |-> d.nodeId, dragOffset |-> d.dragOffset],
      [event |-> "mouseup", nodeId |-> d.nodeId, dragOffset |-> d.dragOffset]>>

RECURSIVE ClosuresOfAll(_)
ClosuresOfAll(ds) ==
    IF ds = {} THEN <<>>
    ELSE LET d == CHOOSE e \in ds : TRUE
         IN ClosuresOf(d) \o ClosuresOfAll(ds \ {d})

\* An effect that attaches and never detaches.
EffectsWithoutCleanup(ls, prev, new) == ls \o ClosuresOfAll(new \ prev)

\* Lines 375-384 at a commit that takes the dragging CanvasNodes from prev to new: a
\* CanvasNode whose dependencies changed, or that unmounted, runs the cleanup of its last
\* effect (lines 379-382), and one that is now dragging attaches its two functions.
Effects(ls, prev, new) ==
    SelectSeq(ls, LAMBDA l : ~\E d \in prev \ new : l \in Range(ClosuresOf(d)))
        \o ClosuresOfAll(new \ prev)

\* Lines 348-357: a press on the body of the i-th node (not on a port), landing at grab
\* from the node's corner, so that dragOffset is grab.
HandleMouseDown(i, grab) ==
    /\ dragging' = {d \in dragging : d.nodeId # canvas[i].id}
                        \cup {[nodeId |-> canvas[i].id, dragOffset |-> grab]}
    /\ listeners' = Effects(listeners, dragging, dragging')
    /\ UNCHANGED state

\* Lines 359-369 for each attached handleMouseMove in turn: onDrag is handleNodeDrag
\* (line 278), whose update of the node list is MoveNode.
RECURSIVE MouseMoves(_, _, _)
MouseMoves(cv, ls, p) ==
    IF ls = <<>> THEN cv
    ELSE MouseMoves(
            IF Head(ls).event = "mousemove"
            THEN MoveNode(cv, Head(ls).nodeId,
                          [x |-> Max0(p.x - Head(ls).dragOffset.x),
                           y |-> Max0(p.y - Head(ls).dragOffset.y)])
            ELSE cv,
            Tail(ls), p)

\* A mousemove on document with the pointer at p.
DocumentMouseMove(p) ==
    /\ canvas' = MouseMoves(canvas, listeners, p)
    /\ dragging' = dragging
    /\ listeners' = Effects(listeners, dragging, dragging')
    /\ UNCHANGED <<now, selectedNode, connections, isConnecting, connectionStart,
                   editorConfig>>

\* A mouseup on document, wherever the pointer is: every attached handleMouseUp
\* (lines 371-373) sets its CanvasNode's isDragging to false.
DocumentMouseUp ==
    /\ dragging' = {d \in dragging :
                        ~\E k \in 1..Len(listeners) :
                            /\ listeners[k].event = "mouseup"
                            /\ listeners[k].nodeId = d.nodeId}
    /\ listeners' = Effects(listeners, dragging, dragging')
    /\ UNCHANGED state

\* deleteNode with the CanvasNodes rendered: a node that leaves the list unmounts
\* (lines 272-283), which drops its state and runs its effect's cleanup.
DeleteRenderedNode(nodeId) ==
    /\ DeleteNode(nodeId)
    /\ dragging' = {d \in dragging : d.nodeId \in NodeIds(canvas')}
    /\ listeners' = Effects(listeners, dragging, dragging')

\* new Date().toISOString(), line 194: the text of the clock reading t.
ToISOString(t) == <<"iso", t>>

\* A document that leaves the connections out.
WorkflowDocumentWithoutConnections(cv, conns, t) ==
    [nodes |-> cv, connections |-> <<>>,
     metadata |-> [name |-> "Custom Workflow",
                   description |-> "Generated workflow from Tool Builder",
                   created |-> ToISOString(t)]]

\* Lines 188-196: the workflow object built from the lists and the clock reading t.
WorkflowDocument(cv, conns, t) ==
    [nodes |-> cv, connections |-> conns,
     metadata |-> [name |-> "Custom Workflow",
                   description |-> "Generated workflow from Tool Builder",
                   created |-> ToISOString(t)]]

\* JSON.stringify, line 198: the text holds each node's fields by value, not the
\* identity of the objects.
PlainNodes(cv) ==
    [i \in 1..Len(cv) |-> [f \in DOMAIN cv[i] \ {"aliases"} |-> cv[i][f]]]

\* Lines 188-198: the document that a call of exportWorkflow in the present state
\* serialises.
SerialisedWorkflow == WorkflowDocument(PlainNodes(canvas), connections, now)

\* An export that also clears the selection.
ExportWorkflowClearingSelection ==
    /\ download' = <<[filename |-> "workflow.json", document |-> SerialisedWorkflow]>>
    /\ selectedNode' = <<>>
    /\ editorConfig' = <<>>
    /\ UNCHANGED <<now, canvas, connections, isConnecting, connectionStart>>

\* Lines 187-207: the document is serialised and downloaded as workflow.json; download
\* holds the latest downloaded file.
ExportWorkflow ==
    /\ download' = <<[filename |-> "workflow.json", document |-> SerialisedWorkflow]>>
    /\ UNCHANGED state

\* Lines 209-213: the call logs the two lists and does nothing else.
RunWorkflow ==
    /\ consoleLog' = <<[label |-> "Running workflow:",
                        payload |-> [canvas |-> canvas, connections |-> connections]]>>
    /\ UNCHANGED state

----------------------------------------------------------------------------
\* The store's handlers, each callable with any argument drawn from the present state.

AddStep ==
    /\ Len(canvas) < MaxNodes
    /\ \E c \in GraphComponents, p \in Points : AddComponentToCanvas(c, p.x, p.y)
    /\ UNCHANGED <<widgets, history>>
NodeDragStep ==
    /\ \E id \in AllNodeIds, p \in Points : HandleNodeDrag(id, p)
    /\ UNCHANGED <<widgets, history>>
DeleteNodeStep ==
    /\ \E id \in AllNodeIds : DeleteNode(id)
    /\ UNCHANGED <<widgets, history>>
StartConnectionStep ==
    /\ \E e \in Endpoints(canvas) :
            StartConnection(e.nodeId, e.portType, e.portName, e.isOutput)
    /\ UNCHANGED <<widgets, history>>
CompleteConnectionStep ==
    /\ Len(connections) < MaxConns
    /\ \E e \in Endpoints(canvas) :
            CompleteConnection(e.nodeId, e.portType, e.portName, e.isOutput)
    /\ UNCHANGED <<widgets, history>>
DeleteConnectionStep ==
    /\ \E id \in AllConnIds : DeleteConnection(id)
    /\ UNCHANGED <<widgets, history>>
UpdateNodeConfigStep ==
    /\ \E id \in AllNodeIds, p \in Partials : UpdateNodeConfig(id, p)
    /\ UNCHANGED <<widgets, history>>

Next ==
    \/ Tick
    \/ AddStep
    \/ NodeDragStep
    \/ DeleteNodeStep
    \/ StartConnectionStep
    \/ CompleteConnectionStep
    \/ DeleteConnectionStep
    \/ UpdateNodeConfigStep

Spec == Init /\ [][Next]_vars

----------------------------------------------------------------------------
\* The handlers that shape the graph (node and connection allocation and removal, the
\* connection gesture), with the history of allocated ids recorded.

\* Every id that has been in the node list or the connection list.
RecordAllocated ==
    /\ allocatedNodeIds' = allocatedNodeIds \cup NodeIds(canvas')
    /\ allocatedConnIds' = allocatedConnIds \cup {connections'[i].id : i \in 1..Len(connections')}

AllocateNodeStep ==
    /\ Len(canvas) < MaxNodes
    /\ \E c \in GraphComponents : AddComponentToCanvas(c, DropPoint.x, DropPoint.y)
    /\ RecordAllocated
    /\ UNCHANGED <<widgets, observed>>
RemoveNodeStep ==
    /\ \E id \in AllNodeIds : DeleteNode(id)
    /\ RecordAllocated
    /\ UNCHANGED <<widgets, observed>>
BeginConnectionStep ==
    /\ \E e \in Endpoints(canvas) :
            StartConnection(e.nodeId, e.portType, e.portName, e.isOutput)
    /\ RecordAllocated
    /\ UNCHANGED <<widgets, observed>>
AllocateConnectionStep ==
    /\ Len(connections) < MaxConns
    /\ \E e \in Endpoints(canvas) :
            /\ CompleteConnection(e.nodeId, e.portType, e.portName, e.isOutput)
            /\ observed' = IF isConnecting /\ connectionStart # <<>>
                                 /\ ~ValidConnection(connectionStart[1], e.nodeId, e.isOutput)
                            THEN observed \cup {"rejected"} ELSE observed
    /\ RecordAllocated
    /\ UNCHANGED widgets
RemoveConnectionStep ==
    /\ \E id \in AllConnIds : DeleteConnection(id)
    /\ RecordAllocated
    /\ UNCHANGED <<widgets, observed>>

NextGraph ==
    \/ Tick
    \/ AllocateNodeStep
    \/ RemoveNodeStep
    \/ BeginConnectionStep
    \/ AllocateConnectionStep
    \/ RemoveConnectionStep

SpecGraph == Init /\ [][NextGraph]_vars

----------------------------------------------------------------------------
\* The editor's gestures on nodes that addComponentToCanvas has placed.

PlaceStep ==
    /\ Len(canvas) < MaxNodes
    /\ \E c \in EditorComponents : AddComponentToCanvas(c, DropPoint.x, DropPoint.y)
    /\ UNCHANGED <<widgets, history>>
ClickCanvasStep ==
    /\ HandleCanvasClick
    /\ UNCHANGED <<widgets, history>>
ClickNodeStep ==
    /\ \E i \in 1..Len(canvas) : ClickNode(i)
    /\ UNCHANGED <<widgets, history>>
ClickDeleteButtonStep ==
    /\ \E i \in 1..Len(canvas) : ClickDeleteButton(i)
    /\ UNCHANGED <<widgets, history>>
ClickInputPortStep ==
    /\ \E i \in 1..Len(canvas) : \E j \in 1..Len(canvas[i].inputs) : ClickInputPort(i, j)
    /\ UNCHANGED <<widgets, history>>
ClickOutputPortStep ==
    /\ \E i \in 1..Len(canvas) : \E j \in 1..Len(canvas[i].outputs) : ClickOutputPort(i, j)
    /\ UNCHANGED <<widgets, history>>
EditStringFieldStep ==
    /\ editorConfig # <<>>
    /\ \E key \in DOMAIN editorConfig[1], text \in EditTexts : EditStringField(key, text)
    /\ UNCHANGED <<widgets, history>>

\* A change of a textarea; a change whose text was dropped is recorded.
EditStructuredFieldStep ==
    /\ editorConfig # <<>>
    /\ \E key \in DOMAIN editorConfig[1], text \in StructuredTexts :
            /\ EditStructuredField(key, text)
            /\ observed' = IF text \in MalformedTexts
                            THEN observed \cup {"malformedEdit"} ELSE observed
    /\ UNCHANGED <<widgets, allocatedNodeIds, allocatedConnIds>>

NextUI ==
    \/ Tick
    \/ PlaceStep
    \/ ClickCanvasStep
    \/ ClickNodeStep
    \/ ClickDeleteButtonStep
    \/ ClickInputPortStep
    \/ ClickOutputPortStep
    \/ EditStringFieldStep

SpecUI == Init /\ [][NextUI]_vars

\* The selection and field-edit gestures alone: no node is deleted.
NextEditor ==
    \/ Tick
    \/ PlaceStep
    \/ ClickCanvasStep
    \/ ClickNodeStep
    \/ EditStringFieldStep

SpecEditor == Init /\ [][NextEditor]_vars

\* The Properties Editor's textarea alone.
NextStructured ==
    \/ Tick
    \/ PlaceStep
    \/ ClickCanvasStep
    \/ ClickNodeStep
    \/ EditStructuredFieldStep

SpecStructured == Init /\ [][NextStructured]_vars

\* The configuration handler among the handlers that build a connected graph.
NextConfig ==
    \/ Tick
    \/ AllocateNodeStep
    \/ BeginConnectionStep
    \/ AllocateConnectionStep
    \/ UpdateNodeConfigStep

SpecConfig == Init /\ [][NextConfig]_vars

\* The Export button among the handlers that build a connected graph.

\* A click on the Export button, lines 221-226; a second export of the same lists at a
\* later clock reading is recorded.
ExportWorkflowStep ==
    /\ ExportWorkflow
    /\ observed' = IF /\ download # <<>>
                      /\ download[1].document.nodes = PlainNodes(canvas)
                      /\ download[1].document.connections = connections
                      /\ download[1].document.metadata.created # ToISOString(now)
                   THEN observed \cup {"exportedAgainLater"} ELSE observed
    /\ UNCHANGED <<paletteDragging, dragging, listeners, consoleLog, allocatedNodeIds,
                   allocatedConnIds>>

NextExport ==
    \/ Tick
    \/ AllocateNodeStep
    \/ BeginConnectionStep
    \/ AllocateConnectionStep
    \/ ExportWorkflowStep

SpecExport == Init /\ [][NextExport]_vars

\* The palette's drag gestures, beside the editor's gestures on placed nodes.

PaletteDragStartStep ==
    /\ \E c \in Range(availableComponents) : PaletteDragStart(c)
    /\ UNCHANGED <<dragging, listeners, download, consoleLog, history>>
PaletteDropOnCanvasStep ==
    /\ \E c \in Range(availableComponents) : PaletteDropOnCanvas(c)
    /\ UNCHANGED <<dragging, listeners, download, consoleLog, history>>

NextPalette ==
    \/ Tick
    \/ PlaceStep
    \/ ClickCanvasStep
    \/ ClickNodeStep
    \/ PaletteDragStartStep
    \/ PaletteDropOnCanvasStep

SpecPalette == Init /\ [][NextPalette]_vars

\* Dragging placed nodes with the pointer. Nodes are placed at distinct clock readings,
\* so that the React keys of the CanvasNodes (line 274) are distinct.

PlaceKeyedStep ==
    /\ Len(canvas) < MaxNodes
    /\ NodeId(now) \notin NodeIds(canvas)
    /\ \E c \in DragComponents : AddComponentToCanvas(c, DropPoint.x, DropPoint.y)
    /\ UNCHANGED <<widgets, history>>
MouseDownStep ==
    /\ \E i \in 1..Len(canvas), grab \in GrabOffsets : HandleMouseDown(i, grab)
    /\ UNCHANGED <<paletteDragging, download, consoleLog, history>>
MouseMoveStep ==
    /\ \E p \in PointerPoints : DocumentMouseMove(p)
    /\ UNCHANGED <<paletteDragging, download, consoleLog, history>>
MouseUpStep ==
    /\ DocumentMouseUp
    /\ UNCHANGED <<paletteDragging, download, consoleLog, history>>
DeleteRenderedNodeStep ==
    /\ \E i \in 1..Len(canvas) :
            /\ DeleteRenderedNode(canvas[i].id)
            /\ observed' = IF \E d \in dragging : d.nodeId = canvas[i].id
                            THEN observed \cup {"deletedWhileDragging"} ELSE observed
    /\ UNCHANGED <<paletteDragging, download, consoleLog, allocatedNodeIds,
                   allocatedConnIds>>

NextDrag ==
    \/ Tick
    \/ PlaceKeyedStep
    \/ MouseDownStep
    \/ MouseMoveStep
    \/ MouseUpStep
    \/ DeleteRenderedNodeStep

SpecDrag == Init /\ [][NextDrag]_vars

\* Every handler that changes a list. Nodes are placed at distinct clock readings.
MoveKeyedStep ==
    /\ \E i \in 1..Len(canvas) : HandleNodeDrag(canvas[i].id, [x |-> 0, y |-> 0])
    /\ UNCHANGED <<widgets, history>>

NextOrder ==
    \/ Tick
    \/ PlaceKeyedStep
    \/ MoveKeyedStep
    \/ UpdateNodeConfigStep
    \/ DeleteNodeStep
    \/ StartConnectionStep
    \/ CompleteConnectionStep
    \/ DeleteConnectionStep

SpecOrder == Init /\ [][NextOrder]_vars

\* The Export and Run buttons, beside selection and the connection gesture.

\* A click on the Run button, lines 227-232.
RunWorkflowStep ==
    /\ RunWorkflow
    /\ UNCHANGED <<paletteDragging, dragging, listeners, download, history>>

NextButtons ==
    \/ Tick
    \/ PlaceKeyedStep
    \/ ClickNodeStep
    \/ ClickOutputPortStep
    \/ CompleteConnectionStep
    \/ ExportWorkflowStep
    \/ RunWorkflowStep

SpecButtons == Init /\ [][NextButtons]_vars

\* handleNodeDrag called with any id and position, beside selection and the connection
\* gesture.
NextMove ==
    \/ Tick
    \/ PlaceKeyedStep
    \/ ClickNodeStep
    \/ ClickOutputPortStep
    \/ CompleteConnectionStep
    \/ NodeDragStep

SpecMove == Init /\ [][NextMove]_vars

\* Several connections between nodes placed at distinct clock readings.

CompleteLinkStep ==
    /\ Len(connections) < MaxLinks
    /\ \E e \in Endpoints(canvas) :
            CompleteConnection(e.nodeId, e.portType, e.portName, e.isOutput)
    /\ UNCHANGED <<widgets, history>>

\* deleteNode and deleteConnection, with the removal of a connection recorded.
DeleteLinkedNodeStep ==
    /\ \E id \in AllNodeIds : DeleteNode(id)
    /\ observed' = IF Len(connections') < Len(connections)
                   THEN observed \cup {"removedWithNode"} ELSE observed
    /\ UNCHANGED <<widgets, allocatedNodeIds, allocatedConnIds>>
DeleteLinkStep ==
    /\ \E id \in AllConnIds : DeleteConnection(id)
    /\ observed' = IF Len(connections') < Len(connections)
                   THEN observed \cup {"removedById"} ELSE observed
    /\ UNCHANGED <<widgets, allocatedNodeIds, allocatedConnIds>>

NextLinks ==
    \/ Tick
    \/ PlaceKeyedStep
    \/ MoveKeyedStep
    \/ DeleteLinkedNodeStep
    \/ StartConnectionStep
    \/ CompleteLinkStep
    \/ DeleteLinkStep

SpecLinks == Init /\ [][NextLinks]_vars

\* Calls that arrive for a node that is gone: a move or a configuration update with any
\* id, and an edit in the Properties Editor of a selection that outlived its node.

LateNodeDragStep ==
    /\ \E id \in AllNodeIds, p \in Points :
            /\ HandleNodeDrag(id, p)
            /\ observed' = IF id \notin NodeIds(canvas)
                            THEN observed \cup {"moveOfAbsentNode"} ELSE observed
    /\ UNCHANGED <<widgets, allocatedNodeIds, allocatedConnIds>>
StaleEditStep ==
    /\ editorConfig # <<>>
    /\ \E key \in DOMAIN editorConfig[1], text \in EditTexts :
            /\ EditStringField(key, text)
            /\ observed' = IF selectedNode[1].id \notin NodeIds(canvas)
                            THEN observed \cup {"editOfAbsentNode"} ELSE observed
    /\ UNCHANGED <<widgets, allocatedNodeIds, allocatedConnIds>>

NextIds ==
    \/ Tick
    \/ PlaceKeyedStep
    \/ ClickNodeStep
    \/ DeleteNodeStep
    \/ LateNodeDragStep
    \/ UpdateNodeConfigStep
    \/ StaleEditStep

SpecIds == Init /\ [][NextIds]_vars

----------------------------------------------------------------------------
\* Properties

UniqueNodeIds == \A i, j \in 1..Len(canvas) : canvas[i].id = canvas[j].id => i = j
Pending == isConnecting /\ connectionStart # <<>>

\* C1: deleteNode(n.id), for a node n of the list, leaves the node list equal to the
\* old list without the entry n (every other entry kept, in order) and the connection
\* list equal to the old list without the connections whose from or to node id is n.id.
C1_DeleteNodeRemovesExactlyN ==
    [][\A i \in 1..Len(canvas) :
          DeleteNode(canvas[i].id) =>
              /\ canvas' = RemoveAt(canvas, i)
              /\ connections' = SelectSeq(connections,
                      LAMBDA c : c.from.nodeId # canvas[i].id /\ c.to.nodeId # canvas[i].id)
      ]_vars

\* C2: with an endpoint pending, completeConnection appends one connection, from the
\* pending endpoint to the completing one, exactly when the pending endpoint is an
\* output, the completing endpoint is an input and their node ids differ; otherwise the
\* connection list is unchanged. Port data kinds play no part.
C2_AcceptIffOutputToInputOfOtherNode ==
    [][\A e \in Endpoints(canvas) :
          (Pending /\ CompleteConnection(e.nodeId, e.portType, e.portName, e.isOutput)) =>
              IF connectionStart[1].isOutput /\ ~e.isOutput
                    /\ connectionStart[1].nodeId # e.nodeId
              THEN /\ Len(connections') = Len(connections) + 1
                   /\ SubSeq(connections', 1, Len(connections)) = connections
                   /\ connections'[Len(connections')].from.nodeId = connectionStart[1].nodeId
                   /\ connections'[Len(connections')].from.portName = connectionStart[1].portName
                   /\ connections'[Len(connections')].to.nodeId = e.nodeId
                   /\ connections'[Len(connections')].to.portName = e.portName
              ELSE connections' = connections
      ]_vars

\* C2 witness: a gesture was completed and accepted between ports of different data kinds.
C2_Witness ==
    /\ ~isConnecting
    /\ \E i \in 1..Len(connections) :
          connections[i].from.portType # connections[i].to.portType

\* C3: every connection's from.nodeId and to.nodeId are ids of nodes in the node list.
C3_NoDanglingConnection ==
    \A i \in 1..Len(connections) :
        /\ connections[i].from.nodeId \in NodeIds(canvas)
        /\ connections[i].to.nodeId \in NodeIds(canvas)

\* C4: with no connections and the output port of node A pending after a click on it, a
\* click on an input port of another node B leaves exactly one connection, from A's
\* port to B's port.
C4_OutputThenInputClickConnects ==
    [][\A a, b \in 1..Len(canvas) :
          \A j \in 1..Len(canvas[a].outputs), k \in 1..Len(canvas[b].inputs) :
              ( /\ canvas[a].id # canvas[b].id
                /\ connections = <<>>
                /\ isConnecting
                /\ connectionStart = <<[nodeId |-> canvas[a].id,
                                         portType |-> canvas[a].outputs[j].type,
                                         portName |-> canvas[a].outputs[j].name,
                                         isOutput |-> TRUE]>>
                /\ ClickInputPort(b, k) ) =>
                    /\ Len(connections') = 1
                    /\ connections'[1].from.nodeId = canvas[a].id
                    /\ connections'[1].to.nodeId = canvas[b].id
      ]_vars

\* C5: while a connection is pending, a click on any port of any node ends the pending
\* state: afterwards isConnecting is false and connectionStart is null.
C5_PortClickEndsPending ==
    [][(Pending /\ (ClickInputPortStep \/ ClickOutputPortStep)) =>
          (~isConnecting' /\ connectionStart' = <<>>)
      ]_vars

\* C6: a recorded pending endpoint always has isOutput = true (a click on an input port
\* records none).
C6_PendingEndpointIsOutput ==
    connectionStart # <<>> => connectionStart[1].isOutput

\* C7: the id of a node appended by addComponentToCanvas was never allocated to a node
\* before, and the id of a connection appended by completeConnection was never
\* allocated to a connection before.
C7_AllocatedIdsAreFresh ==
    [][ /\ Len(canvas') = Len(canvas) + 1 =>
              canvas'[Len(canvas')].id \notin allocatedNodeIds
        /\ Len(connections') = Len(connections) + 1 =>
              connections'[Len(connections')].id \notin allocatedConnIds
      ]_vars

\* C8: the selected node, if any, is a node of the node list.
C8_SelectedNodeIsPresent ==
    selectedNode # <<>> => selectedNode[1].id \in NodeIds(canvas)

\* C9: after deleteNode(id), no pending endpoint with nodeId = id is recorded.
C9_DeleteNodeClearsPendingEndpoint ==
    [][\A id \in AllNodeIds :
          DeleteNode(id) => ~(connectionStart' # <<>> /\ connectionStart'[1].nodeId = id)
      ]_vars

\* C10: a field edit of key k in the Properties Editor changes only key k of the selected
\* node's stored configuration: its other keys keep their values, it gains no key, and no
\* other node changes (stated for node lists whose ids are pairwise distinct).
C10_EditChangesOnlyThatKey ==
    [][(selectedNode # <<>> /\ editorConfig # <<>> /\ UniqueNodeIds) =>
          \A key \in DOMAIN editorConfig[1], text \in EditTexts :
              EditStringField(key, text) =>
                  \A i \in 1..Len(canvas) :
                      IF canvas[i].id = selectedNode[1].id
                      THEN /\ DOMAIN canvas'[i].config = DOMAIN canvas[i].config
                           /\ \A k \in DOMAIN canvas[i].config \ {key} :
                                 canvas'[i].config[k] = canvas[i].config[k]
                      ELSE canvas'[i] = canvas[i]
      ]_vars

\* C11: updateNodeConfig(id, partial) sets each key of partial in the configuration of the
\* node(s) with that id and keeps their other keys, id, type, position and ports; every
\* other node, the connections, the selection and the pending endpoint are unchanged
\* (so nothing changes when no node has the id).
C11_UpdateNodeConfigMergesOnlyPartial ==
    [][\A id \in AllNodeIds, partial \in Partials :
          UpdateNodeConfig(id, partial) =>
              /\ Len(canvas') = Len(canvas)
              /\ \A i \in 1..Len(canvas) :
                    IF canvas[i].id = id
                    THEN /\ DOMAIN canvas'[i].config = DOMAIN canvas[i].config \cup DOMAIN partial
                         /\ \A k \in DOMAIN partial : canvas'[i].config[k] = partial[k]
                         /\ \A k \in DOMAIN canvas[i].config \ DOMAIN partial :
                               canvas'[i].config[k] = canvas[i].config[k]
                         /\ canvas'[i].id = canvas[i].id
                         /\ canvas'[i].type = canvas[i].type
                         /\ canvas'[i].position = canvas[i].position
                         /\ canvas'[i].inputs = canvas[i].inputs
                         /\ canvas'[i].outputs = canvas[i].outputs
                    ELSE canvas'[i] = canvas[i]
              /\ connections' = connections
              /\ selectedNode' = selectedNode
              /\ isConnecting' = isConnecting
              /\ connectionStart' = connectionStart
      ]_vars

\* C11 witness: a connected scraper node whose method was updated to "manual" and whose
\* other default key is as the template set it.
C11_Witness ==
    \E i \in 1..Len(canvas) :
        /\ canvas[i].type = "scraper"
        /\ canvas[i].config.method = Str("manual")
        /\ canvas[i].config.extraction_prompt = Str("")
        /\ \E j \in 1..Len(connections) : connections[j].from.nodeId = canvas[i].id

\* C12: for every existing node id and every position p, after handleNodeDrag(id, p) the
\* node's position is {x: max(0, p.x), y: max(0, p.y)}.
C12_HandleNodeDragClampsToZero ==
    [][\A id \in AllNodeIds, p \in Points :
          HandleNodeDrag(id, p) =>
              \A i \in 1..Len(canvas) :
                  canvas[i].id = id =>
                      canvas'[i].position = [x |-> IF p.x < 0 THEN 0 ELSE p.x,
                                             y |-> IF p.y < 0 THEN 0 ELSE p.y]
      ]_vars

\* C13: in every reachable state every node has position.x >= 0 and position.y >= 0.
C13_PositionsAreNonNegative ==
    \A i \in 1..Len(canvas) : canvas[i].position.x >= 0 /\ canvas[i].position.y >= 0

\* C14 as stated: two calls of exportWorkflow on the same node and connection lists
\* produce identical documents, metadata included, whatever the clock readings.
C14_ExportsOfSameStoreAreIdentical ==
    [][(/\ ExportWorkflow
        /\ download # <<>>
        /\ download[1].document.nodes = PlainNodes(canvas)
        /\ download[1].document.connections = connections)
       => download' = download]_vars

\* C14 amended: every exportWorkflow call produces the document whose nodes and connections
\* are the store's lists, whose metadata name and description are the fixed texts and whose
\* metadata.created is the text of the clock reading of the call; so two calls on the same
\* lists produce documents that agree on everything except metadata.created, which agrees
\* exactly when the clock readings agree.
C14_ExportIsStoreProjectionPlusCallTime ==
    [][ExportWorkflow =>
          /\ Len(download') = 1
          /\ download'[1].filename = "workflow.json"
          /\ download'[1].document.nodes = PlainNodes(canvas)
          /\ download'[1].document.connections = connections
          /\ DOMAIN download'[1].document.metadata = {"name", "description", "created"}
          /\ download'[1].document.metadata.name = "Custom Workflow"
          /\ download'[1].document.metadata.description = "Generated workflow from Tool Builder"
          /\ \A t \in 0..MaxClock :
                (download'[1].document.metadata.created = ToISOString(t)) <=> (t = now)
          /\ (/\ download # <<>>
              /\ download[1].document.nodes = PlainNodes(canvas)
              /\ download[1].document.connections = connections)
             => /\ download'[1].document.nodes = download[1].document.nodes
                /\ download'[1].document.connections = download[1].document.connections
                /\ download'[1].document.metadata.name = download[1].document.metadata.name
                /\ download'[1].document.metadata.description
                      = download[1].document.metadata.description
      ]_vars

\* C14 witness: a connected graph was exported twice without a change between, the second
\* time at a later clock reading.
C14_Witness ==
    /\ "exportedAgainLater" \in observed
    /\ download # <<>>
    /\ download[1].document.connections # <<>>
    /\ download[1].document.metadata.created = ToISOString(now)

\* C15: in every reachable state every connection's from.portName names a port in the
\* outputs of the node from.nodeId, its to.portName names a port in the inputs of the node
\* to.nodeId, and from.nodeId differs from to.nodeId.
C15_ConnectionEndpointsArePortsOfTheirNodes ==
    \A k \in 1..Len(connections) :
        /\ \E i \in 1..Len(canvas) :
              /\ canvas[i].id = connections[k].from.nodeId
              /\ \E j \in 1..Len(canvas[i].outputs) :
                    canvas[i].outputs[j].name = connections[k].from.portName
        /\ \E i \in 1..Len(canvas) :
              /\ canvas[i].id = connections[k].to.nodeId
              /\ \E j \in 1..Len(canvas[i].inputs) :
                    canvas[i].inputs[j].name = connections[k].to.portName
        /\ connections[k].from.nodeId # connections[k].to.nodeId

\* C16: when completeConnection is called with a pending endpoint and the candidate fails
\* validation (the pending endpoint is not an output, the clicked port is not an input, or
\* both are on the same node), the connection list, the node list and every other state
\* variable are unchanged (there is no error state to record into) and the pending state is
\* reset: isConnecting false, connectionStart null.
C16_RejectedCompletionDiscardsGesture ==
    [][\A e \in Endpoints(canvas) :
          (/\ Pending
           /\ \/ ~connectionStart[1].isOutput
              \/ e.isOutput
              \/ connectionStart[1].nodeId = e.nodeId
           /\ CompleteConnection(e.nodeId, e.portType, e.portName, e.isOutput))
          => /\ connections' = connections
             /\ canvas' = canvas
             /\ selectedNode' = selectedNode
             /\ editorConfig' = editorConfig
             /\ now' = now
             /\ isConnecting' = FALSE
             /\ connectionStart' = <<>>
      ]_vars

\* C16 witness: a completion was rejected and left no connection and no pending endpoint.
C16_Witness ==
    /\ "rejected" \in observed
    /\ canvas # <<>>
    /\ connections = <<>>
    /\ allocatedConnIds = {}
    /\ ~isConnecting
    /\ connectionStart = <<>>

\* C17: an edit of a Structured configuration field whose text fails to parse changes
\* nothing: the stored configuration of every node and the editor's held configuration keep
\* their values (so updateNodeConfig has not run), as does every other state variable.
C17_MalformedStructuredEditChangesNothing ==
    [][editorConfig # <<>> =>
          \A key \in DOMAIN editorConfig[1], text \in MalformedTexts :
              EditStructuredField(key, text) =>
                  /\ canvas' = canvas
                  /\ editorConfig' = editorConfig
                  /\ selectedNode' = selectedNode
                  /\ connections' = connections
                  /\ isConnecting' = isConnecting
                  /\ connectionStart' = connectionStart
      ]_vars

\* C17 witness: a malformed text was typed into the headers textarea of a selected api
\* node, and the held and stored headers are the template's.
C17_Witness ==
    /\ "malformedEdit" \in observed
    /\ selectedNode # <<>>
    /\ editorConfig # <<>>
    /\ "headers" \in DOMAIN editorConfig[1]
    /\ editorConfig[1].headers = Structured("{}")
    /\ \A i \in 1..Len(canvas) : canvas[i].type = "api" => canvas[i].config.headers = Structured("{}")

\* C18: dragging a component from the palette and dropping it on the canvas adds a node of
\* that template to the store.
C18_PaletteDropAddsNode ==
    [][\A c \in Range(availableComponents) :
          PaletteDropOnCanvas(c) =>
              /\ Len(canvas') = Len(canvas) + 1
              /\ canvas'[Len(canvas')].type = c.type
      ]_vars

\* C19: a node created by addComponentToCanvas shares no mutable reference with its
\* template: its inputs list, its outputs list and every configuration value that is an
\* object or array are copies of the template's, not the template's own.
C19_NodeSharesNothingWithTemplate ==
    \A i \in 1..Len(canvas) : canvas[i].aliases = {}

Pick(s, S) ==
    LET F[i \in 0..Len(s)] ==
            IF i = 0 THEN <<>>
            ELSE IF i \in S THEN Append(F[i - 1], s[i]) ELSE F[i - 1]
    IN F[Len(s)]

\* A node but for its position and configuration.
SameNode(a, b) ==
    /\ a.id = b.id
    /\ a.type = b.type
    /\ a.name = b.name
    /\ a.inputs = b.inputs
    /\ a.outputs = b.outputs

C22_ExportAndRunChangeNoEditorState ==
    [][(ExportWorkflow \/ RunWorkflow) =>
          /\ canvas' = canvas
          /\ connections' = connections
          /\ selectedNode' = selectedNode
          /\ editorConfig' = editorConfig
          /\ isConnecting' = isConnecting
          /\ connectionStart' = connectionStart
      ]_vars

\* C22 witness: both buttons were used on a graph with a connection, a selected node and
\* a pending endpoint, and all three are still there.
C22_Witness ==
    /\ download # <<>>
    /\ consoleLog # <<>>
    /\ download[1].document.connections # <<>>
    /\ consoleLog[1].payload.connections # <<>>
    /\ connections # <<>>
    /\ selectedNode # <<>>
    /\ isConnecting
    /\ connectionStart # <<>>

\* C23: handleNodeDrag(id, p) changes only the position of the node(s) with that id, to p:
\* their other fields, every other node, the connection list, the selection and the pending
\* endpoint are unchanged; if no node has that id the whole state is unchanged.
C23_HandleNodeDragChangesOnlyPosition ==
    [][\A id \in AllNodeIds, p \in Points :
          HandleNodeDrag(id, p) =>
              /\ Len(canvas') = Len(canvas)
              /\ \A i \in 1..Len(canvas) :
                    IF canvas[i].id = id
                    THEN /\ canvas'[i].position = p
                         /\ DOMAIN canvas'[i] = DOMAIN canvas[i]
                         /\ \A f \in DOMAIN canvas[i] \ {"position"} : canvas'[i][f] = canvas[i][f]
                    ELSE canvas'[i] = canvas[i]
              /\ (id \notin NodeIds(canvas)) => canvas' = canvas
              /\ connections' = connections
              /\ selectedNode' = selectedNode
              /\ editorConfig' = editorConfig
              /\ isConnecting' = isConnecting
              /\ connectionStart' = connectionStart
              /\ now' = now
      ]_vars

\* C23 witness: of two connected nodes, one selected, one was moved and the other is where
\* it was placed.
C23_Witness ==
    /\ Len(canvas) = 2
    /\ canvas[1].position # DropPoint
    /\ canvas[2].position = DropPoint
    /\ connections # <<>>
    /\ selectedNode # <<>>

\* C24: deleteConnection(id) removes the connection with that id and nothing else: every
\* connection with a different id remains, in order, the node list and the rest of the
\* state are unchanged, and one call never removes more than one connection (so nothing
\* changes when no connection has that id).
C24_DeleteConnectionRemovesOne ==
    [][\A id \in AllConnIds :
          DeleteConnection(id) =>
              /\ connections' = SelectSeq(connections, LAMBDA c : c.id # id)
              /\ Len(connections) - Len(connections') <= 1
              /\ canvas' = canvas
              /\ selectedNode' = selectedNode
              /\ isConnecting' = isConnecting
              /\ connectionStart' = connectionStart
      ]_vars

\* C25: a connection is never modified after it is formed: after every step the connection
\* list is the list before it, or that with one connection appended, or some of its
\* connections in the order they had, each as it was; and a connection leaves the list
\* only in a step that is deleteConnection on its id (the node list unchanged, exactly the
\* connections with that id gone) or deleteNode on the node of one of its endpoints (the
\* nodes with that id gone, exactly the connections touching it gone).
C25_ConnectionsAreOnlyDeleted ==
    [][/\ \/ connections' = connections
          \/ /\ Len(connections') = Len(connections) + 1
             /\ \A i \in 1..Len(connections) : connections'[i] = connections[i]
          \/ \E S \in SUBSET (1..Len(connections)) : connections' = Pick(connections, S)
       /\ \A k \in 1..Len(connections) :
             connections[k] \notin Range(connections') =>
                \/ /\ canvas' = canvas
                   /\ connections' = SelectSeq(connections,
                                               LAMBDA c : c.id # connections[k].id)
                \/ \E n \in {connections[k].from.nodeId, connections[k].to.nodeId} :
                      /\ canvas' = SelectSeq(canvas, LAMBDA node : node.id # n)
                      /\ connections' = SelectSeq(connections,
                            LAMBDA c : c.from.nodeId # n /\ c.to.nodeId # n)
      ]_vars

\* C25 witness: connections have been removed by deleteConnection and by deleteNode, nodes
\* have been moved, and two connections are in the list.
C25_Witness ==
    /\ {"removedWithNode", "removedById"} \subseteq observed
    /\ Len(connections) = 2
    /\ \E i \in 1..Len(canvas) : canvas[i].position # DropPoint

\* C26: no cycle detection is performed: a completion from an output of node B to an input
\* of another node A is accepted and appended also when a connection from A to B exists,
\* so the connections can form a directed cycle.
C26_CompletionClosingCycleIsAccepted ==
    [][\A e \in Endpoints(canvas) :
          (/\ Pending
           /\ connectionStart[1].isOutput
           /\ ~e.isOutput
           /\ connectionStart[1].nodeId # e.nodeId
           /\ \E k \in 1..Len(connections) :
                 /\ connections[k].from.nodeId = e.nodeId
                 /\ connections[k].to.nodeId = connectionStart[1].nodeId
           /\ CompleteConnection(e.nodeId, e.portType, e.portName, e.isOutput))
          => /\ Len(connections') = Len(connections) + 1
             /\ \A i \in 1..Len(connections) : connections'[i] = connections[i]
             /\ connections'[Len(connections')].from.nodeId = connectionStart[1].nodeId
             /\ connections'[Len(connections')].from.portName = connectionStart[1].portName
             /\ connections'[Len(connections')].to.nodeId = e.nodeId
             /\ connections'[Len(connections')].to.portName = e.portName
      ]_vars

\* C26 witness: nodes A and B are in the list with a connection from A's output to B's
\* input and one from B's output to A's input.
C26_Witness ==
    \E a, b \in 1..Len(canvas) :
        /\ canvas[a].id # canvas[b].id
        /\ \E k1, k2 \in 1..Len(connections) :
              /\ connections[k1].from.nodeId = canvas[a].id
              /\ connections[k1].to.nodeId = canvas[b].id
              /\ connections[k2].from.nodeId = canvas[b].id
              /\ connections[k2].to.nodeId = canvas[a].id
              /\ \E j \in 1..Len(canvas[a].outputs) :
                    canvas[a].outputs[j].name = connections[k1].from.portName
              /\ \E j \in 1..Len(canvas[b].outputs) :
                    canvas[b].outputs[j].name = connections[k2].from.portName

\* C27: during a drag each pointer move sets the node's position to the pointer position
\* minus the offset recorded at the press, in the frame in which the node is placed (the
\* container's), clamped at 0; so the pressed point of the node stays under the pointer.
C27_DraggedNodeFollowsPointer ==
    [][\A p \in PointerPoints :
          DocumentMouseMove(p) =>
              \A d \in dragging : \A i \in 1..Len(canvas) :
                  canvas[i].id = d.nodeId =>
                      canvas'[i].position =
                          [x |-> Max0(p.x - ContainerOrigin.x - d.dragOffset.x),
                           y |-> Max0(p.y - ContainerOrigin.y - d.dragOffset.y)]
      ]_vars

\* C28: the exported document has exactly the top-level keys nodes, connections and
\* metadata, and its metadata has exactly the keys name, description and createdAt.
C28_ExportedDocumentKeys ==
    download # <<>> =>
        /\ DOMAIN download[1].document = {"nodes", "connections", "metadata"}
        /\ DOMAIN download[1].document.metadata = {"name", "description", "createdAt"}

\* C29: the node ids in the store change only through addComponentToCanvas (one node
\* appended) and deleteNode (the nodes with one id removed): every step leaves the nodes
\* with their id, type, inputs and outputs, or appends one node, or removes the nodes
\* with one id; and a step that changes the number of nodes is no call of handleNodeDrag
\* or updateNodeConfig and no Properties Editor edit, whatever id the call is for.
C29_NodeIdsChangeOnlyByAddAndDelete ==
    [][/\ \/ /\ Len(canvas') = Len(canvas)
             /\ \A i \in 1..Len(canvas) : SameNode(canvas'[i], canvas[i])
          \/ /\ Len(canvas') = Len(canvas) + 1
             /\ \A i \in 1..Len(canvas) : canvas'[i] = canvas[i]
             /\ canvas'[Len(canvas')].id = NodeId(now)
          \/ \E id \in NodeIds(canvas) :
                canvas' = SelectSeq(canvas, LAMBDA node : node.id # id)
       /\ Len(canvas') # Len(canvas) =>
             /\ ~\E id \in AllNodeIds, p \in Points : HandleNodeDrag(id, p)
             /\ ~\E id \in AllNodeIds, partial \in Partials : UpdateNodeConfig(id, partial)
             /\ editorConfig # <<>> =>
                   ~\E key \in DOMAIN editorConfig[1], text \in EditTexts :
                       EditStringField(key, text)
      ]_vars

\* C29 witness: a move and an edit have arrived for ids that no node had, and the list
\* holds one node, which is where and as it was placed.
C29_Witness ==
    /\ {"moveOfAbsentNode", "editOfAbsentNode"} \subseteq observed
    /\ Len(canvas) = 1
    /\ canvas[1].position = DropPoint
    /\ canvas[1].config.method = Str("auto")

\* C30: every configuration value keeps its kind across Properties Editor edits: each key
\* that a node's template defines holds, in the stored configuration and in the editor's
\* held configuration, a value of the kind of the template's value; in particular a
\* Structured key never holds a scalar.
C30_ConfigValuesKeepTheirKind ==
    /\ \A i \in 1..Len(canvas) :
          \A k \in DOMAIN canvas[i].config \cap DOMAIN Component(canvas[i].type).config :
              canvas[i].config[k].kind = Component(canvas[i].type).config[k].kind
    /\ (selectedNode # <<>> /\ editorConfig # <<>>) =>
          \A k \in DOMAIN editorConfig[1] \cap DOMAIN selectedNode[1].config :
              editorConfig[1][k].kind = selectedNode[1].config[k].kind

====
